---- MODULE Spec2Model ----
(***************************************************************************)
(* Model of the task-scheduler client's conversation memory               *)
(* (class ConversationMemory of the enhanced mcp-ollama-client) and of    *)
(* the chat loop that drives it, of the parse of the model's reply, of    *)
(* the same class in demo-memory.js, and of the MCP server's tool         *)
(* endpoint with the task API behind it.  Strings are TLA+ strings; \o,   *)
(* Len and SubSeq act on them character by character.                     *)
(***************************************************************************)
EXTENDS Integers, Sequences, FiniteSets, TLC

(* ------------------------------ bounds -------------------------------- *)

\* largest maxMessages a window is constructed with
MaxWindow == 2

\* number of addMessage calls made on one window object
MaxCalls == 3

\* number of lines typed at the chat prompt
MaxInputs == 2

\* number of pieces a reply of the model is put together from
MaxPieces == 3

\* number of POSTs to the tool endpoint of the MCP server
MaxPosts == 3

(* ------------------------------ inputs -------------------------------- *)

Roles == {"user", "assistant"}

Contents == {"", "show tasks", "created the meeting", "task updated"}

Undefined == [type |-> "undefined"]

VARIABLES
    messages,     \* this.messages: sequence of [role, content, timestamp]
    maxMessages,  \* this.maxMessages
    summary,      \* this.summary
    now,          \* the clock read by new Date()
    lastOp,       \* the method called last on the window
    ret,          \* the value that call returned
    oldMessages,  \* oldMessages of the last addMessage call (<<>> when it spliced nothing)
    recorded,     \* every turn added since construction or the last clear()
    calls,        \* number of addMessage calls so far
    pc,           \* where chatLoop stands: the rl.question or await it is waiting in
    input,        \* the line chatLoop is processing
    llmResult,    \* chatLoop's llmResult, the parsed reply of the model
    confirmation, \* askForConfirmation for this input: "none" (not asked), "yes", "no"
    request,      \* the POST executeMCPTool has in flight to the MCP server
    inputsRead,   \* number of lines read at the 'You: ' prompt
    ynAnswer,     \* the line typed at the '(y/n): ' prompt for this input
    prompts,      \* number of rl.question callbacks waiting for a line
    toolOutcome,  \* how executeMCPTool ended for this input: returned or thrown
    stderr,       \* the console.error calls of the last chatLoop step
    stdout,       \* the console.log lines of the last chatLoop step, for the exit and
                  \* clarification branches (other branches: <<>>); a pictograph is
                  \* written as its short code, e.g. :memo:
    llmResponse,  \* response.data.response, the text of the model's reply
    parsed,       \* how parsing llmResponse ended: a value or an error
    demoMessages,    \* this.messages of demo-memory.js's ConversationMemory
    demoMaxMessages, \* its this.maxMessages
    demoSummary,     \* its this.summary
    demoRet,         \* the value the last call on it returned
    tasks,        \* the Task collection: sequence of stored documents
    nextId,       \* the _id the next created document gets
    apiCalls,     \* the requests the last POST to the tool endpoint made to the task API
    httpRequest,  \* the last POST to the tool endpoint: toolName and arguments
    httpResponse, \* the response to the last POST to the tool endpoint
    posts         \* number of POSTs to the tool endpoint so far

memVars == <<messages, maxMessages, summary, now, lastOp, ret, oldMessages, recorded, calls>>

chatVars == <<pc, input, llmResult, confirmation, request, inputsRead,
              ynAnswer, prompts, toolOutcome, stderr, stdout>>

parseVars == <<llmResponse, parsed>>

demoVars == <<demoMessages, demoMaxMessages, demoSummary, demoRet>>

serverVars == <<tasks, nextId, apiCalls, httpRequest, httpResponse, posts>>

vars == <<messages, maxMessages, summary, now, lastOp, ret, oldMessages, recorded, calls,
          pc, input, llmResult, confirmation, request, inputsRead,
          ynAnswer, prompts, toolOutcome, stderr, stdout, llmResponse, parsed,
          demoMessages, demoMaxMessages, demoSummary, demoRet,
          tasks, nextId, apiCalls, httpRequest, httpResponse, posts>>

(* --------------------------- string helpers --------------------------- *)

\* String.prototype.includes(k) for a non-empty k
Includes(s, k) ==
    \E i \in 1..(Len(s) - Len(k) + 1) : SubSeq(s, i, i + Len(k) - 1) = k

\* Array.prototype.join(sep) on a sequence of strings
RECURSIVE Join(_, _)
Join(strs, sep) ==
    IF Len(strs) = 0 THEN ""
    ELSE IF Len(strs) = 1 THEN strs[1]
    ELSE strs[1] \o sep \o Join(Tail(strs), sep)

IsPrefix(p, s) == Len(p) <= Len(s) /\ SubSeq(s, 1, Len(p)) = p

(* ------------------------- ConversationMemory ------------------------- *)

\* faulty variants of the filter: it keeps every message, it keeps none, it
\* keeps assistant messages only
IsTaskActionAny(msg) == TRUE

IsTaskActionNone(msg) == FALSE

IsTaskActionAssistant(msg) ==
    /\ msg.role = "assistant"
    /\ \E k \in {"created", "scheduled", "deleted", "updated"} : Includes(msg.content, k)

\* the filter predicate of updateSummary
IsTaskAction(msg) ==
    \/ Includes(msg.content, "created")
    \/ Includes(msg.content, "scheduled")
    \/ Includes(msg.content, "deleted")
    \/ Includes(msg.content, "updated")

RECURSIVE ContentsOf(_)
ContentsOf(msgs) ==
    IF Len(msgs) = 0 THEN <<>> ELSE <<msgs[1].content>> \o ContentsOf(Tail(msgs))

\* the text updateSummary appends for a non-empty taskActions
SummaryLine(taskActions) ==
    "\nPrevious session: " \o Join(ContentsOf(taskActions), "; ") \o "."

\* faulty variant: this.summary = ... in place of this.summary += ...
updateSummaryOverwrite(s, old) ==
    IF Len(old) > 0 /\ Len(SelectSeq(old, IsTaskAction)) > 0
    THEN SummaryLine(SelectSeq(old, IsTaskAction))
    ELSE s

\* updateSummary(oldMessages): the new value of this.summary
updateSummary(s, old) ==
    IF Len(old) > 0
    THEN LET taskActions == SelectSeq(old, IsTaskAction)
         IN  IF Len(taskActions) > 0 THEN s \o SummaryLine(taskActions) ELSE s
    ELSE s

\* faulty variant: the length test is off by one
SpliceCountOne(len, max) == IF len > max + 1 THEN len - max ELSE 0

\* the deleteCount of this.messages.splice(0, deleteCount) in addMessage
SpliceCount(len, max) == IF len > max THEN len - max ELSE 0

\* faulty variant: the newest n messages are removed
SplicedNewest(msgs, n) == SubSeq(msgs, Len(msgs) - n + 1, Len(msgs))

\* the elements splice(0, n) removes and returns
Spliced(msgs, n) == SubSeq(msgs, 1, n)

\* faulty variant: the oldest messages are kept
RemainingOldest(msgs, n) == SubSeq(msgs, 1, Len(msgs) - n)

\* the elements splice(0, n) leaves in the array
Remaining(msgs, n) == SubSeq(msgs, n + 1, Len(msgs))

\* faulty variant: the newest message is listed first
RECURSIVE LinesReversed(_)
LinesReversed(msgs) ==
    IF Len(msgs) = 0 THEN ""
    ELSE LinesReversed(Tail(msgs)) \o msgs[1].role \o ": " \o msgs[1].content \o "\n"

\* the lines getContextString's forEach appends, one per message
RECURSIVE Lines(_)
Lines(msgs) ==
    IF Len(msgs) = 0 THEN ""
    ELSE msgs[1].role \o ": " \o msgs[1].content \o "\n" \o Lines(Tail(msgs))

SummaryBlock(s) == "Summary of earlier conversation: " \o s \o "\n\n"

RecentBlock(msgs) == "Recent conversation:\n" \o Lines(msgs)

\* faulty variants: the blocks are swapped; the recent block's header is
\* printed without its length test
ContextStringRecentFirst(msgs, s) ==
    (IF Len(msgs) > 0 THEN RecentBlock(msgs) ELSE "")
        \o (IF s # "" THEN SummaryBlock(s) ELSE "")

ContextStringHeader(msgs, s) ==
    (IF s # "" THEN SummaryBlock(s) ELSE "") \o RecentBlock(msgs)

\* getContextString(): the string returned
ContextString(msgs, s) ==
    (IF s # "" THEN SummaryBlock(s) ELSE "")
        \o (IF Len(msgs) > 0 THEN RecentBlock(msgs) ELSE "")

\* faulty variant: totalMessages counts every message ever added
HistoryLifetime(msgs, s) == [messages |-> msgs, summary |-> s, totalMessages |-> calls]

\* getHistory(): the object returned
History(msgs, s) == [messages |-> msgs, summary |-> s, totalMessages |-> Len(msgs)]

\* faulty variant: clear() forgets the summary
ClearedSummaryKept(s) == s

\* clear(): the new value of this.summary
ClearedSummary(s) == ""

(* ------------------- a window as a value, replayed -------------------- *)

\* the fields of a window just constructed with max
FreshWindow(max) == [messages |-> <<>>, summary |-> "", maxMessages |-> max]

\* the fields of window w after addMessage stored msg
RecordTurn(w, msg) ==
    LET pushed == Append(w.messages, msg)
        n      == SpliceCount(Len(pushed), w.maxMessages)
        old    == Spliced(pushed, n)
    IN  [messages    |-> Remaining(pushed, n),
         summary     |-> IF n > 0 THEN updateSummary(w.summary, old) ELSE w.summary,
         maxMessages |-> w.maxMessages]

\* the fields of window w after addMessage stored each of turns in order
RECURSIVE Replay(_, _)
Replay(w, turns) ==
    IF Len(turns) = 0 THEN w ELSE Replay(RecordTurn(w, Head(turns)), Tail(turns))

(* -------------------- actions on one window object -------------------- *)

\* new ConversationMemory(max)
InitMemory(max) ==
    /\ maxMessages = max
    /\ messages = <<>>
    /\ summary = ""
    /\ now = 0
    /\ lastOp = "constructor"
    /\ ret = Undefined
    /\ oldMessages = <<>>
    /\ recorded = <<>>
    /\ calls = 0

\* executeMCPTool has not been called for this input
NoOutcome == [kind |-> "none"]

NoChat ==
    /\ pc = "none"
    /\ input = ""
    /\ llmResult = Undefined
    /\ confirmation = "none"
    /\ request = Undefined
    /\ inputsRead = 0
    /\ ynAnswer = ""
    /\ prompts = 0
    /\ toolOutcome = NoOutcome
    /\ stderr = <<>>
    /\ stdout = <<>>

\* no reply of the model is being parsed
NoParse ==
    /\ llmResponse = ""
    /\ parsed = [kind |-> "none"]

\* no demo window is in use
NoDemo ==
    /\ demoMessages = <<>>
    /\ demoMaxMessages = 0
    /\ demoSummary = ""
    /\ demoRet = Undefined

\* no request has reached the MCP server
NoServer ==
    /\ tasks = <<>>
    /\ nextId = 0
    /\ apiCalls = <<>>
    /\ httpRequest = Undefined
    /\ httpResponse = Undefined
    /\ posts = 0

Init == (\E max \in 1..MaxWindow : InitMemory(max)) /\ NoChat /\ NoParse /\ NoDemo /\ NoServer

\* the body of addMessage(role, content)
Record(role, content) ==
    /\ \E t \in {now, now + 1} :
         LET msg    == [role |-> role, content |-> content, timestamp |-> t]
             pushed == Append(messages, msg)
             n      == SpliceCount(Len(pushed), maxMessages)
             old    == Spliced(pushed, n)
         IN  /\ now' = t
             /\ messages' = Remaining(pushed, n)
             /\ oldMessages' = old
             /\ summary' = IF n > 0 THEN updateSummary(summary, old) ELSE summary
             /\ recorded' = Append(recorded, msg)
    /\ calls' = calls + 1
    /\ UNCHANGED maxMessages

addMessage(role, content) ==
    /\ calls < MaxCalls
    /\ Record(role, content)
    /\ lastOp' = "addMessage"
    /\ ret' = Undefined
    /\ UNCHANGED chatVars
    /\ UNCHANGED <<parseVars, demoVars, serverVars>>

\* faulty variant: rendering consumes the messages
getContextStringDrain ==
    /\ ret' = ContextString(messages, summary)
    /\ lastOp' = "getContextString"
    /\ messages' = <<>>
    /\ UNCHANGED <<maxMessages, summary, now, oldMessages, recorded, calls>>
    /\ UNCHANGED chatVars
    /\ UNCHANGED <<parseVars, demoVars, serverVars>>

getContextString ==
    /\ ret' = ContextString(messages, summary)
    /\ lastOp' = "getContextString"
    /\ UNCHANGED <<messages, maxMessages, summary, now, oldMessages, recorded, calls>>
    /\ UNCHANGED chatVars
    /\ UNCHANGED <<parseVars, demoVars, serverVars>>

getHistory ==
    /\ ret' = History(messages, summary)
    /\ lastOp' = "getHistory"
    /\ UNCHANGED <<messages, maxMessages, summary, now, oldMessages, recorded, calls>>
    /\ UNCHANGED chatVars
    /\ UNCHANGED <<parseVars, demoVars, serverVars>>

\* faulty variant: clear() summarises the messages it discards
ClearSummarising ==
    /\ messages' = <<>>
    /\ summary' = updateSummary("", messages)
    /\ recorded' = <<>>
    /\ lastOp' = "clear"
    /\ ret' = Undefined
    /\ UNCHANGED <<maxMessages, now, oldMessages, calls>>

\* the body of clear()
Clear ==
    /\ messages' = <<>>
    /\ summary' = ClearedSummary(summary)
    /\ recorded' = <<>>
    /\ lastOp' = "clear"
    /\ ret' = Undefined
    /\ UNCHANGED <<maxMessages, now, oldMessages, calls>>

clear == Clear /\ UNCHANGED chatVars /\ UNCHANGED <<parseVars, demoVars, serverVars>>

Next ==
    \/ \E role \in Roles, content \in Contents : addMessage(role, content)
    \/ getContextString
    \/ getHistory
    \/ clear

Spec == Init /\ [][Next]_vars

\* the same driver, passing roles the comment on addMessage does not list
InvalidRoles == {"system"}

NextAnyRole ==
    \/ \E role \in Roles \cup InvalidRoles, content \in Contents : addMessage(role, content)
    \/ getContextString
    \/ getHistory
    \/ clear

SpecAnyRole == Init /\ [][NextAnyRole]_vars

(* ------------------------------ chatLoop ------------------------------ *)

\* const conversationMemory = new ConversationMemory(15)
ChatMaxMessages == 15

UpperCase == "ABCDEFGHIJKLMNOPQRSTUVWXYZ"

LowerCase == "abcdefghijklmnopqrstuvwxyz"

LowerChar(c) ==
    IF \E i \in 1..26 : SubSeq(UpperCase, i, i) = c
    THEN LET i == CHOOSE j \in 1..26 : SubSeq(UpperCase, j, j) = c
         IN  SubSeq(LowerCase, i, i)
    ELSE c

\* String.prototype.toLowerCase()
RECURSIVE ToLowerCase(_)
ToLowerCase(str) ==
    IF Len(str) = 0 THEN ""
    ELSE LowerChar(SubSeq(str, 1, 1)) \o ToLowerCase(SubSeq(str, 2, Len(str)))

\* lines typed at the 'You: ' prompt
ChatInputs == {"EXIT", "quit", "Memory", "clear memory", "show tasks"}

\* lines typed at the '(y/n): ' prompt
Answers == {"y", "Yes", "no", ""}

\* replies of the model, as JSON.parse returns them (an absent field is "" or <<>>)
LlmResults ==
    { [action |-> "ask_clarification", parameters |-> "{}",
       explanation |-> "I need more details", missing_info |-> <<"date and time", "title">>,
       validation_summary |-> ""],
      [action |-> "ask_clarification", parameters |-> "{}",
       explanation |-> "I need more details", missing_info |-> <<>>,
       validation_summary |-> ""],
      [action |-> "create_task", parameters |-> "{title: Team meeting}",
       explanation |-> "Creating a work meeting", missing_info |-> <<>>,
       validation_summary |-> "Create 'Team meeting'"],
      [action |-> "list_tasks", parameters |-> "{}",
       explanation |-> "", missing_info |-> <<>>,
       validation_summary |-> ""],
      [action |-> "send_email", parameters |-> "{}",
       explanation |-> "Sending an email", missing_info |-> <<>>,
       validation_summary |-> ""] }

\* messages of the errors processWithOllama throws
OllamaErrors == {"Could not parse LLM response as JSON", "connect ECONNREFUSED"}

\* messages of the errors axios throws when the MCP server cannot be reached
NetworkErrors == {"connect ECONNREFUSED"}

\* the task field of a result that has none
NoTask == [title |-> "", date |-> "", time |-> ""]

\* response.data.result of the tool named by action (mcp-server's createTask,
\* listTasks, updateTask, deleteTask, searchTasks); an absent field is "" or
\* has its flag FALSE; a task carries its title and its start as
\* toLocaleDateString() and toLocaleTimeString() print it
ToolResults(action) ==
    IF action = "create_task" THEN
        { [success |-> TRUE, hasTasks |-> FALSE, tasks |-> <<>>,
           message |-> "Task \"Team meeting\" created successfully", hasTask |-> TRUE,
           task |-> [title |-> "Team meeting", date |-> "7/2/2025", time |-> "3:00:00 PM"],
           error |-> ""] }
    ELSE IF action \in {"list_tasks", "search_tasks"} THEN
        { [success |-> TRUE, hasTasks |-> TRUE, tasks |-> <<>>,
           message |-> "", hasTask |-> FALSE, task |-> NoTask, error |-> ""],
          [success |-> TRUE, hasTasks |-> TRUE, tasks |-> <<"Team meeting">>,
           message |-> "", hasTask |-> FALSE, task |-> NoTask, error |-> ""] }
    ELSE IF action = "update_task" THEN
        { [success |-> TRUE, hasTasks |-> FALSE, tasks |-> <<>>,
           message |-> "Task updated successfully", hasTask |-> TRUE,
           task |-> [title |-> "Team meeting", date |-> "7/2/2025", time |-> "4:00:00 PM"],
           error |-> ""] }
    ELSE IF action = "delete_task" THEN
        { [success |-> TRUE, hasTasks |-> FALSE, tasks |-> <<>>,
           message |-> "Task deleted successfully", hasTask |-> FALSE, task |-> NoTask,
           error |-> ""] }
    ELSE {}

\* the tool names of the switch in POST /mcp/v1/tools/:toolName
KnownTools == {"create_task", "list_tasks", "update_task", "delete_task", "search_tasks"}

\* the result field of a response that has none
NoResult ==
    [success |-> FALSE, hasTasks |-> FALSE, tasks |-> <<>>, message |-> "",
     hasTask |-> FALSE, task |-> NoTask, error |-> ""]

\* the error field of a response that has none
NoError == [code |-> "", message |-> ""]

\* the message of the Error a tool function throws when its call to the task
\* API fails
ToolFailure(toolName) ==
    IF toolName = "create_task" THEN "Failed to create task: connect ECONNREFUSED"
    ELSE IF toolName = "list_tasks" THEN "Failed to list tasks: connect ECONNREFUSED"
    ELSE IF toolName = "update_task" THEN "Failed to update task: connect ECONNREFUSED"
    ELSE IF toolName = "delete_task" THEN "Failed to delete task: connect ECONNREFUSED"
    ELSE "Failed to search tasks: connect ECONNREFUSED"

\* the responses POST /mcp/v1/tools/:toolName can send: 200 with the tool's
\* result, 500 when the tool function throws, 404 for a name outside the switch
ServerResponses(toolName) ==
    IF toolName \in KnownTools
    THEN { [status |-> 200, result |-> r, error |-> NoError] : r \in ToolResults(toolName) }
         \cup
         { [status |-> 500, result |-> NoResult,
            error |-> [code |-> "EXECUTION_ERROR", message |-> ToolFailure(toolName)]] }
    ELSE { [status |-> 404, result |-> NoResult,
            error |-> [code |-> "TOOL_NOT_FOUND",
                       message |-> "Tool " \o toolName \o " not found"]] }

\* chatLoop's assistantResponse once the result is displayed
AssistantResponse(llm, result) ==
    LET base == IF llm.explanation # "" THEN llm.explanation ELSE "Action completed"
    IN  IF result.success
        THEN IF llm.action = "list_tasks" /\ result.hasTasks
             THEN IF Len(result.tasks) = 0
                  THEN base \o ". No tasks found."
                  ELSE base \o ". Found " \o ToString(Len(result.tasks)) \o " tasks: "
                            \o Join(result.tasks, ", ") \o "."
             ELSE IF result.message # "" THEN base \o ". " \o result.message
             ELSE IF result.hasTask
                  THEN base \o ". Successfully created task: \"" \o result.task.title
                            \o "\" scheduled for " \o result.task.date
                            \o " at " \o result.task.time \o "."
             ELSE base \o ". Action completed successfully."
        ELSE base \o ". Error: " \o (IF result.error # "" THEN result.error ELSE "Unknown error")

\* whether chatLoop asks before executing: if (llmResult.validation_summary)
NeedsConfirmation(llm) == llm.validation_summary # ""

\* faulty variant: every answer confirms
ConfirmedAlways(answer) == TRUE

\* askForConfirmation's resolve(answer.toLowerCase().startsWith('y'))
Confirmed(answer) == IsPrefix("y", ToLowerCase(answer))

\* faulty variant: the cancel branch lacks its return and calls chatLoop() twice
ChatLoopCallsNoReturn(path) == IF path = "cancelled" THEN 2 ELSE 1

\* the number of chatLoop() calls, each an rl.question('You: '), that the
\* callback makes on a path that does not exit
ChatLoopCalls(path) == 1

\* main() has called chatLoop(): the first prompt is waiting
InitChat ==
    /\ InitMemory(ChatMaxMessages)
    /\ pc = "prompt"
    /\ input = ""
    /\ llmResult = Undefined
    /\ confirmation = "none"
    /\ request = Undefined
    /\ inputsRead = 0
    /\ ynAnswer = ""
    /\ prompts = 1
    /\ toolOutcome = NoOutcome
    /\ stderr = <<>>
    /\ stdout = <<>>
    /\ NoParse
    /\ NoDemo
    /\ NoServer

\* the callback of rl.question('You: ') starts on a line
ReadLine(line) ==
    /\ pc = "prompt" /\ prompts > 0 /\ inputsRead < MaxInputs
    /\ input' = line
    /\ inputsRead' = inputsRead + 1
    /\ confirmation' = "none"
    /\ ynAnswer' = ""
    /\ toolOutcome' = NoOutcome
    /\ stderr' = <<>>
    /\ UNCHANGED <<parseVars, demoVars, serverVars>>

\* faulty variant: the exit branch prints and then prompts again
ExitCommandStaysOpen(line) ==
    /\ ReadLine(line)
    /\ ToLowerCase(line) \in {"exit", "quit"}
    /\ ret' = History(messages, summary)
    /\ lastOp' = "getHistory"
    /\ stdout' = <<"\nGoodbye!">>
    /\ pc' = "prompt"
    /\ UNCHANGED <<messages, maxMessages, summary, now, oldMessages, recorded, calls,
                   llmResult, request, prompts>>

\* 'exit' or 'quit': print the summary and the message count, rl.close()
ExitCommand(line) ==
    /\ ReadLine(line)
    /\ ToLowerCase(line) \in {"exit", "quit"}
    /\ ret' = History(messages, summary)
    /\ lastOp' = "getHistory"
    /\ stdout' = <<"\n:memo: Conversation Summary:">>
                  \o (IF History(messages, summary).summary # ""
                      THEN <<History(messages, summary).summary>> ELSE <<>>)
                  \o <<"Total messages in this session: "
                           \o ToString(History(messages, summary).totalMessages),
                       "\nGoodbye!">>
    /\ pc' = "closed"
    /\ prompts' = prompts - 1
    /\ UNCHANGED <<messages, maxMessages, summary, now, oldMessages, recorded, calls,
                   llmResult, request>>

\* 'memory' or 'history': print the history, prompt again
MemoryCommand(line) ==
    /\ ReadLine(line)
    /\ ToLowerCase(line) \notin {"exit", "quit"}
    /\ ToLowerCase(line) \in {"memory", "history"}
    /\ ret' = History(messages, summary)
    /\ lastOp' = "getHistory"
    /\ stdout' = <<>>
    /\ pc' = "prompt"
    /\ prompts' = prompts - 1 + ChatLoopCalls("memory")
    /\ UNCHANGED <<messages, maxMessages, summary, now, oldMessages, recorded, calls,
                   llmResult, request>>

\* 'clear memory': conversationMemory.clear(), prompt again
ClearCommand(line) ==
    /\ ReadLine(line)
    /\ ToLowerCase(line) \notin {"exit", "quit", "memory", "history"}
    /\ ToLowerCase(line) = "clear memory"
    /\ Clear
    /\ stdout' = <<>>
    /\ pc' = "prompt"
    /\ prompts' = prompts - 1 + ChatLoopCalls("clear")
    /\ UNCHANGED <<llmResult, request>>

\* faulty variant: the context is rendered before the line is recorded
AskOllamaRenderFirst(line) ==
    /\ ReadLine(line)
    /\ ToLowerCase(line) \notin {"exit", "quit", "memory", "history", "clear memory"}
    /\ Record("user", line)
    /\ ret' = ContextString(messages, summary)
    /\ lastOp' = "getContextString"
    /\ stdout' = <<>>
    /\ pc' = "ollama"
    /\ prompts' = prompts - 1
    /\ llmResult' = Undefined
    /\ UNCHANGED request

\* any other line: processWithOllama records it, renders the context into the
\* prompt and awaits the model
AskOllama(line) ==
    /\ ReadLine(line)
    /\ ToLowerCase(line) \notin {"exit", "quit", "memory", "history", "clear memory"}
    /\ Record("user", line)
    /\ ret' = ContextString(messages', summary')
    /\ lastOp' = "getContextString"
    /\ stdout' = <<>>
    /\ pc' = "ollama"
    /\ prompts' = prompts - 1
    /\ llmResult' = Undefined
    /\ UNCHANGED request

\* faulty variant: the catch block only prompts again
CatchErrorSilent(errors) ==
    /\ stderr' = <<>>
    /\ stdout' = <<>>
    /\ pc' = "prompt"
    /\ prompts' = prompts + ChatLoopCalls("error")
    /\ request' = Undefined
    /\ UNCHANGED memVars

\* the catch block of chatLoop, entered with the console.error calls made
\* while the error travelled up; its message is that of the last of them
CatchError(errors) ==
    LET message == errors[Len(errors)].message
    IN  /\ stderr' = Append(errors, [site |-> "chatLoop", message |-> message])
        /\ stdout' = <<>>
        /\ Record("assistant", "Error occurred: " \o message)
        /\ lastOp' = "addMessage"
        /\ ret' = Undefined
        /\ pc' = "prompt"
        /\ prompts' = prompts + ChatLoopCalls("error")
        /\ request' = Undefined

\* the request to the model fails, or its reply does not parse
OllamaThrows(message) ==
    /\ pc = "ollama"
    /\ CatchError(<<[site |-> "processWithOllama", message |-> message]>>)
    /\ UNCHANGED <<input, llmResult, confirmation, inputsRead, ynAnswer, toolOutcome>>
    /\ UNCHANGED <<parseVars, demoVars, serverVars>>

\* the lines missing_info.forEach prints: '  1. info', '  2. info', ...
NumberedLines(items) ==
    [i \in 1..Len(items) |-> "  " \o ToString(i) \o ". " \o items[i]]

\* faulty variant: the clarification branch lacks its return and goes on to
\* execute the action
ClarificationExecutes(llm) ==
    /\ pc = "ollama"
    /\ llm.action = "ask_clarification"
    /\ llmResult' = llm
    /\ stdout' = <<"\n:thinking: " \o llm.explanation>>
    /\ request' = [toolName |-> llm.action, arguments |-> llm.parameters]
    /\ pc' = "tool"
    /\ UNCHANGED memVars
    /\ UNCHANGED <<input, confirmation, inputsRead, ynAnswer, prompts, toolOutcome, stderr>>
    /\ UNCHANGED <<parseVars, demoVars, serverVars>>

\* the model asks for clarification
Clarification(llm) ==
    /\ pc = "ollama"
    /\ llm.action = "ask_clarification"
    /\ llmResult' = llm
    /\ IF Len(llm.missing_info) > 0
       THEN /\ stdout' = <<"\n:thinking: " \o llm.explanation,
                           "\nI need the following information:">>
                         \o NumberedLines(llm.missing_info)
                         \o <<"\nPlease provide more details and try again.">>
            /\ Record("assistant",
                      "Asked for clarification: " \o Join(llm.missing_info, ", "))
            /\ lastOp' = "addMessage"
            /\ ret' = Undefined
       ELSE /\ stdout' = <<"\n:thinking: " \o llm.explanation>>
            /\ UNCHANGED memVars
    /\ pc' = "prompt"
    /\ prompts' = prompts + ChatLoopCalls("clarification")
    /\ UNCHANGED <<input, confirmation, request, inputsRead, ynAnswer, toolOutcome, stderr>>
    /\ UNCHANGED <<parseVars, demoVars, serverVars>>

\* the model names an action with a validation summary: ask the user
AskForConfirmation(llm) ==
    /\ pc = "ollama"
    /\ llm.action # "ask_clarification"
    /\ NeedsConfirmation(llm)
    /\ llmResult' = llm
    /\ pc' = "confirm"
    /\ prompts' = prompts + 1
    /\ UNCHANGED memVars
    /\ UNCHANGED <<input, confirmation, request, inputsRead, ynAnswer, toolOutcome, stderr, stdout>>
    /\ UNCHANGED <<parseVars, demoVars, serverVars>>

\* executeMCPTool(llmResult.action, llmResult.parameters) sends its POST
PostTool(llm) ==
    /\ request' = [toolName |-> llm.action, arguments |-> llm.parameters]
    /\ pc' = "tool"

\* the model names an action without a validation summary: execute it
ExecuteUnasked(llm) ==
    /\ pc = "ollama"
    /\ llm.action # "ask_clarification"
    /\ ~NeedsConfirmation(llm)
    /\ llmResult' = llm
    /\ PostTool(llm)
    /\ UNCHANGED memVars
    /\ UNCHANGED <<input, confirmation, inputsRead, ynAnswer, prompts, toolOutcome, stderr, stdout>>
    /\ UNCHANGED <<parseVars, demoVars, serverVars>>

\* the user answers the confirmation prompt and resolve(true) follows
ConfirmYes(answer) ==
    /\ pc = "confirm" /\ prompts > 0
    /\ Confirmed(answer)
    /\ ynAnswer' = answer
    /\ confirmation' = "yes"
    /\ prompts' = prompts - 1
    /\ PostTool(llmResult)
    /\ UNCHANGED memVars
    /\ UNCHANGED <<input, llmResult, inputsRead, toolOutcome, stderr, stdout>>
    /\ UNCHANGED <<parseVars, demoVars, serverVars>>

\* the user answers the confirmation prompt and resolve(false) follows: the
\* action is cancelled
ConfirmNo(answer) ==
    /\ pc = "confirm" /\ prompts > 0
    /\ ~Confirmed(answer)
    /\ ynAnswer' = answer
    /\ confirmation' = "no"
    /\ Record("assistant", "Action was cancelled by user")
    /\ lastOp' = "addMessage"
    /\ ret' = Undefined
    /\ pc' = "prompt"
    /\ prompts' = prompts - 1 + ChatLoopCalls("cancelled")
    /\ UNCHANGED <<input, llmResult, request, inputsRead, toolOutcome, stderr, stdout>>
    /\ UNCHANGED <<parseVars, demoVars, serverVars>>

\* the MCP server answers 200: executeMCPTool returns response.data.result
ToolReturns(response) ==
    /\ pc = "tool"
    /\ response \in ServerResponses(request.toolName)
    /\ response.status = 200
    /\ toolOutcome' = [kind |-> "returned", result |-> response.result]
    /\ Record("assistant", AssistantResponse(llmResult, response.result))
    /\ lastOp' = "addMessage"
    /\ ret' = Undefined
    /\ pc' = "prompt"
    /\ prompts' = prompts + ChatLoopCalls("done")
    /\ request' = Undefined
    /\ stderr' = <<>>
    /\ stdout' = <<>>
    /\ UNCHANGED <<input, llmResult, confirmation, inputsRead, ynAnswer>>
    /\ UNCHANGED <<parseVars, demoVars, serverVars>>

\* the MCP server answers 404 or 500: axios throws, executeMCPTool logs
\* error.response.data and throws on
ToolRejected(response) ==
    /\ pc = "tool"
    /\ response \in ServerResponses(request.toolName)
    /\ response.status # 200
    /\ LET message == "Request failed with status code " \o ToString(response.status)
       IN  /\ toolOutcome' = [kind |-> "thrown", message |-> message]
           /\ CatchError(<<[site |-> "executeMCPTool", message |-> message,
                            data |-> response.error]>>)
    /\ UNCHANGED <<input, llmResult, confirmation, inputsRead, ynAnswer>>
    /\ UNCHANGED <<parseVars, demoVars, serverVars>>

\* the MCP server cannot be reached: axios throws, executeMCPTool logs
\* error.message and throws on
ToolUnreachable(message) ==
    /\ pc = "tool"
    /\ toolOutcome' = [kind |-> "thrown", message |-> message]
    /\ CatchError(<<[site |-> "executeMCPTool", message |-> message, data |-> NoError]>>)
    /\ UNCHANGED <<input, llmResult, confirmation, inputsRead, ynAnswer>>
    /\ UNCHANGED <<parseVars, demoVars, serverVars>>

ToolNames == KnownTools \cup {"send_email"}

NextChat ==
    \/ \E line \in ChatInputs : ExitCommand(line)
    \/ \E line \in ChatInputs : MemoryCommand(line)
    \/ \E line \in ChatInputs : ClearCommand(line)
    \/ \E line \in ChatInputs : AskOllama(line)
    \/ \E message \in OllamaErrors : OllamaThrows(message)
    \/ \E llm \in LlmResults : Clarification(llm)
    \/ \E llm \in LlmResults : AskForConfirmation(llm)
    \/ \E llm \in LlmResults : ExecuteUnasked(llm)
    \/ \E answer \in Answers : ConfirmYes(answer)
    \/ \E answer \in Answers : ConfirmNo(answer)
    \/ \E toolName \in ToolNames :
           \E response \in ServerResponses(toolName) : ToolReturns(response)
    \/ \E toolName \in ToolNames :
           \E response \in ServerResponses(toolName) : ToolRejected(response)
    \/ \E message \in NetworkErrors : ToolUnreachable(message)

SpecChat == InitChat /\ [][NextChat]_vars

\* a chat that has been going on: the user mentioned a call, then asked for
\* the tasks seven times, while the model could not be reached
EarlierInputs ==
    <<"I scheduled a call", "show tasks", "show tasks", "show tasks",
      "show tasks", "show tasks", "show tasks", "show tasks">>

\* the turns chatLoop recorded for these inputs: each line, then the error
EarlierTurns ==
    [i \in 1..(2 * Len(EarlierInputs)) |->
        IF i % 2 = 1
        THEN [role |-> "user", content |-> EarlierInputs[(i + 1) \div 2], timestamp |-> i]
        ELSE [role |-> "assistant", content |-> "Error occurred: connect ECONNREFUSED",
              timestamp |-> i]]

\* chatLoop waits at its prompt after the earlier inputs
InitChatLate ==
    /\ LET w == Replay(FreshWindow(ChatMaxMessages), EarlierTurns)
       IN  /\ messages = w.messages
           /\ summary = w.summary
           /\ maxMessages = w.maxMessages
    /\ now = Len(EarlierTurns)
    /\ lastOp = "addMessage"
    /\ ret = Undefined
    /\ oldMessages = <<EarlierTurns[1]>>
    /\ recorded = EarlierTurns
    /\ calls = Len(EarlierTurns)
    /\ pc = "prompt"
    /\ input = EarlierInputs[Len(EarlierInputs)]
    /\ llmResult = Undefined
    /\ confirmation = "none"
    /\ request = Undefined
    /\ inputsRead = 0
    /\ ynAnswer = ""
    /\ prompts = 1
    /\ toolOutcome = NoOutcome
    /\ stderr = <<[site |-> "processWithOllama", message |-> "connect ECONNREFUSED"],
                  [site |-> "chatLoop", message |-> "connect ECONNREFUSED"]>>
    /\ stdout = <<>>
    /\ NoParse
    /\ NoDemo
    /\ NoServer

SpecChatLate == InitChatLate /\ [][NextChat]_vars

(* ---------------------- parsing the model's reply --------------------- *)

CharAt(text, i) == SubSeq(text, i, i)

Digits == {"0", "1", "2", "3", "4", "5", "6", "7", "8", "9"}

\* the first index from i on that holds no space
RECURSIVE SkipSpace(_, _)
SkipSpace(text, i) ==
    IF i <= Len(text) /\ CharAt(text, i) = " " THEN SkipSpace(text, i + 1) ELSE i

\* a parse that failed
ParseFail == [ok |-> FALSE, pos |-> 0, val |-> ""]

\* a JSON string starting at the quote at i, without escapes
ParseString(text, i) ==
    IF \E j \in (i + 1)..Len(text) : CharAt(text, j) = "\""
    THEN LET j == CHOOSE h \in (i + 1)..Len(text) :
                      /\ CharAt(text, h) = "\""
                      /\ \A g \in (i + 1)..(h - 1) : CharAt(text, g) # "\""
         IN  [ok |-> TRUE, pos |-> j + 1, val |-> SubSeq(text, i, j)]
    ELSE ParseFail

\* a JSON number starting at the digit at i: the run of digits from there
ParseNumber(text, i) ==
    LET j == CHOOSE h \in i..Len(text) :
                 /\ \A g \in i..h : CharAt(text, g) \in Digits
                 /\ h = Len(text) \/ CharAt(text, h + 1) \notin Digits
    IN  IF CharAt(text, i) = "0" /\ j > i THEN ParseFail
        ELSE [ok |-> TRUE, pos |-> j + 1, val |-> SubSeq(text, i, j)]

\* JSON values made of objects, strings and numbers; val is the value
\* written without spaces, pos the index after it
RECURSIVE ParseValue(_, _), ParseMembers(_, _)
ParseValue(text, i) ==
    LET j == SkipSpace(text, i)
    IN  IF j > Len(text) THEN ParseFail
        ELSE IF CharAt(text, j) = "{"
        THEN LET k == SkipSpace(text, j + 1)
             IN  IF k <= Len(text) /\ CharAt(text, k) = "}"
                 THEN [ok |-> TRUE, pos |-> k + 1, val |-> "{}"]
                 ELSE LET m == ParseMembers(text, k)
                      IN  IF m.ok /\ m.pos <= Len(text) /\ CharAt(text, m.pos) = "}"
                          THEN [ok |-> TRUE, pos |-> m.pos + 1, val |-> "{" \o m.val \o "}"]
                          ELSE ParseFail
        ELSE IF CharAt(text, j) = "\"" THEN ParseString(text, j)
        ELSE IF CharAt(text, j) \in Digits THEN ParseNumber(text, j)
        ELSE ParseFail

ParseMembers(text, i) ==
    LET k == SkipSpace(text, i)
    IN  IF k > Len(text) \/ CharAt(text, k) # "\"" THEN ParseFail
        ELSE LET key == ParseString(text, k)
                 c   == SkipSpace(text, key.pos)
             IN  IF ~key.ok \/ c > Len(text) \/ CharAt(text, c) # ":" THEN ParseFail
                 ELSE LET v     == ParseValue(text, c + 1)
                          after == SkipSpace(text, v.pos)
                      IN  IF ~v.ok THEN ParseFail
                          ELSE IF after <= Len(text) /\ CharAt(text, after) = ","
                          THEN LET more == ParseMembers(text, after + 1)
                               IN  IF more.ok
                                   THEN [ok |-> TRUE, pos |-> more.pos,
                                         val |-> key.val \o ":" \o v.val \o "," \o more.val]
                                   ELSE ParseFail
                          ELSE [ok |-> TRUE, pos |-> after,
                                val |-> key.val \o ":" \o v.val]

\* JSON.parse(text): the value, or ok FALSE where it throws a SyntaxError
JsonParse(text) ==
    LET v == ParseValue(text, 1)
    IN  IF v.ok /\ SkipSpace(text, v.pos) > Len(text)
        THEN [ok |-> TRUE, val |-> v.val]
        ELSE [ok |-> FALSE, val |-> ""]

\* what a match that found nothing returns
NoMatch == [found |-> FALSE, text |-> ""]

\* faulty variant: the lazy pattern /\{[\s\S]*?\}/
RegexMatchLazy(text) ==
    IF \E a \in 1..Len(text), b \in 1..Len(text) :
           a < b /\ CharAt(text, a) = "{" /\ CharAt(text, b) = "}"
    THEN LET a == CHOOSE i \in 1..Len(text) :
                      /\ CharAt(text, i) = "{"
                      /\ \A h \in 1..(i - 1) : CharAt(text, h) # "{"
             b == CHOOSE i \in (a + 1)..Len(text) :
                      /\ CharAt(text, i) = "}"
                      /\ \A h \in (a + 1)..(i - 1) : CharAt(text, h) # "}"
         IN  [found |-> TRUE, text |-> SubSeq(text, a, b)]
    ELSE NoMatch

\* llmResponse.match(/\{[\s\S]*\}/): from the first '{' to the last '}'
RegexMatch(text) ==
    LET opens  == {i \in 1..Len(text) : CharAt(text, i) = "{"}
        closes == {i \in 1..Len(text) : CharAt(text, i) = "}"}
    IN  IF opens # {} /\ closes # {}
        THEN LET a == CHOOSE i \in opens : \A h \in opens : i <= h
                 b == CHOOSE i \in closes : \A h \in closes : h <= i
             IN  IF a < b THEN [found |-> TRUE, text |-> SubSeq(text, a, b)] ELSE NoMatch
        ELSE NoMatch

\* the parse of processWithOllama: the value returned, or the error thrown
ParseLlmResponse(text) ==
    IF JsonParse(text).ok
    THEN [kind |-> "value", value |-> JsonParse(text).val, error |-> ""]
    ELSE LET jsonMatch == RegexMatch(text)
         IN  IF jsonMatch.found
             THEN IF JsonParse(jsonMatch.text).ok
                  THEN [kind |-> "value", value |-> JsonParse(jsonMatch.text).val,
                        error |-> ""]
                  ELSE [kind |-> "error", value |-> "", error |-> "SyntaxError"]
             ELSE [kind |-> "error", value |-> "",
                   error |-> "Could not parse LLM response as JSON"]

\* the pieces the replies are put together from
Pieces == {"{}", "{\"a\":", "1", "}", "x", " "}

RECURSIVE Texts(_)
Texts(n) ==
    IF n = 0 THEN {""} ELSE {""} \cup {p \o t : p \in Pieces, t \in Texts(n - 1)}

\* the model has replied; nothing is parsed yet
InitParse ==
    /\ InitMemory(ChatMaxMessages)
    /\ NoChat
    /\ llmResponse \in Texts(MaxPieces)
    /\ parsed = [kind |-> "none"]
    /\ NoDemo
    /\ NoServer

\* lines 189-203 of processWithOllama
parseResponse ==
    /\ parsed.kind = "none"
    /\ parsed' = ParseLlmResponse(llmResponse)
    /\ UNCHANGED llmResponse
    /\ UNCHANGED memVars
    /\ UNCHANGED chatVars
    /\ UNCHANGED <<demoVars, serverVars>>

NextParse == parseResponse

SpecParse == InitParse /\ [][NextParse]_vars

(* -------------- ConversationMemory of demo-memory.js ------------------ *)

\* faulty variant: the filter lacks the keyword 'updated'
DemoIsTaskActionThree(msg) ==
    \/ Includes(msg.content, "created")
    \/ Includes(msg.content, "scheduled")
    \/ Includes(msg.content, "deleted")

\* the filter predicate of the demo's updateSummary
DemoIsTaskAction(msg) ==
    \/ Includes(msg.content, "created")
    \/ Includes(msg.content, "scheduled")
    \/ Includes(msg.content, "deleted")
    \/ Includes(msg.content, "updated")

\* taskActions.map(msg => msg.content).join('; ')
RECURSIVE DemoJoinContents(_)
DemoJoinContents(msgs) ==
    IF Len(msgs) = 0 THEN ""
    ELSE IF Len(msgs) = 1 THEN msgs[1].content
    ELSE msgs[1].content \o "; " \o DemoJoinContents(Tail(msgs))

\* the demo's updateSummary(oldMessages): the new value of this.summary
DemoUpdateSummary(s, old) ==
    IF Len(old) = 0 THEN s
    ELSE LET taskActions == SelectSeq(old, DemoIsTaskAction)
         IN  IF Len(taskActions) > 0
             THEN s \o "\nPrevious session: " \o DemoJoinContents(taskActions) \o "."
             ELSE s

\* the demo's getContextString(): the string returned
RECURSIVE DemoForEach(_, _)
DemoForEach(context, msgs) ==
    IF Len(msgs) = 0 THEN context
    ELSE DemoForEach(context \o msgs[1].role \o ": " \o msgs[1].content \o "\n", Tail(msgs))

DemoContextString(msgs, s) ==
    LET withSummary == IF s # "" THEN "Summary of earlier conversation: " \o s \o "\n\n"
                       ELSE ""
    IN  IF Len(msgs) > 0
        THEN DemoForEach(withSummary \o "Recent conversation:\n", msgs)
        ELSE withSummary

\* the demo's getHistory(): the object returned
DemoHistory(msgs, s) == [messages |-> msgs, summary |-> s, totalMessages |-> Len(msgs)]

\* both classes are constructed with the same maxMessages
InitDemo ==
    /\ \E max \in 1..MaxWindow : InitMemory(max) /\ demoMaxMessages = max
    /\ demoMessages = <<>>
    /\ demoSummary = ""
    /\ demoRet = Undefined
    /\ NoChat
    /\ NoParse
    /\ NoServer

\* the body of the demo's addMessage(role, content), reading the clock at t
DemoRecord(role, content, t) ==
    LET pushed == Append(demoMessages,
                         [role |-> role, content |-> content, timestamp |-> t])
    IN  IF Len(pushed) > demoMaxMessages
        THEN LET deleteCount == Len(pushed) - demoMaxMessages
             IN  /\ demoMessages' = SubSeq(pushed, deleteCount + 1, Len(pushed))
                 /\ demoSummary' = DemoUpdateSummary(demoSummary, SubSeq(pushed, 1, deleteCount))
        ELSE /\ demoMessages' = pushed
             /\ demoSummary' = demoSummary

\* the same addMessage call on both windows
BothAddMessage(role, content) ==
    /\ calls < MaxCalls
    /\ Record(role, content)
    /\ lastOp' = "addMessage"
    /\ ret' = Undefined
    /\ DemoRecord(role, content, now')
    /\ demoRet' = Undefined
    /\ UNCHANGED demoMaxMessages
    /\ UNCHANGED <<chatVars, parseVars, serverVars>>

\* getContextString() on both windows
BothGetContextString ==
    /\ ret' = ContextString(messages, summary)
    /\ lastOp' = "getContextString"
    /\ demoRet' = DemoContextString(demoMessages, demoSummary)
    /\ UNCHANGED <<messages, maxMessages, summary, now, oldMessages, recorded, calls>>
    /\ UNCHANGED <<demoMessages, demoMaxMessages, demoSummary>>
    /\ UNCHANGED <<chatVars, parseVars, serverVars>>

\* getHistory() on both windows
BothGetHistory ==
    /\ ret' = History(messages, summary)
    /\ lastOp' = "getHistory"
    /\ demoRet' = DemoHistory(demoMessages, demoSummary)
    /\ UNCHANGED <<messages, maxMessages, summary, now, oldMessages, recorded, calls>>
    /\ UNCHANGED <<demoMessages, demoMaxMessages, demoSummary>>
    /\ UNCHANGED <<chatVars, parseVars, serverVars>>

NextDemo ==
    \/ \E role \in Roles, content \in Contents : BothAddMessage(role, content)
    \/ BothGetContextString
    \/ BothGetHistory

SpecDemo == InitDemo /\ [][NextDemo]_vars

(* ------------------- the MCP server and the task API ------------------ *)

\* a property of a JSON object that may be missing: <<>> is undefined,
\* <<v>> is the value v
Absent == <<>>

Present(v) == <<v>>

IsPresent(o) == Len(o) > 0

ValueOf(o) == o[1]

\* a Date: an instant on a whole hour, or Invalid Date
InvalidDate == [valid |-> FALSE, day |-> "", hour |-> 0]

\* the number a string of decimal digits denotes
RECURSIVE ParseInt(_)
ParseInt(str) ==
    IF Len(str) = 0 THEN 0
    ELSE LET last == CharAt(str, Len(str))
             d    == CHOOSE n \in 0..9 : ToString(n) = last
         IN  10 * ParseInt(SubSeq(str, 1, Len(str) - 1)) + d

AllDigits(str) == \A i \in 1..Len(str) : CharAt(str, i) \in Digits

\* new Date(str) for the ISO forms YYYY-MM-DDTHH:00:00Z and
\* YYYY-MM-DDTHH:00:00.000Z; any other string is an Invalid Date
NewDate(str) ==
    IF /\ Len(str) \in {20, 24}
       /\ AllDigits(SubSeq(str, 1, 4)) /\ CharAt(str, 5) = "-"
       /\ AllDigits(SubSeq(str, 6, 7)) /\ CharAt(str, 8) = "-"
       /\ AllDigits(SubSeq(str, 9, 10)) /\ CharAt(str, 11) = "T"
       /\ AllDigits(SubSeq(str, 12, 13)) /\ ParseInt(SubSeq(str, 12, 13)) < 24
       /\ SubSeq(str, 14, Len(str)) \in {":00:00Z", ":00:00.000Z"}
    THEN [valid |-> TRUE, day |-> SubSeq(str, 1, 10), hour |-> ParseInt(SubSeq(str, 12, 13))]
    ELSE InvalidDate

\* new Date(args.start) where args.start may be undefined
NewDateOf(o) == IF IsPresent(o) THEN NewDate(ValueOf(o)) ELSE InvalidDate

TwoDigits(n) == IF n < 10 THEN "0" \o ToString(n) ELSE ToString(n)

\* new Date(date.getTime() + 60 * 60 * 1000), for days before the 28th
PlusOneHour(date) ==
    IF ~date.valid THEN InvalidDate
    ELSE IF date.hour < 23 THEN [date EXCEPT !.hour = date.hour + 1]
    ELSE [valid |-> TRUE,
          day   |-> SubSeq(date.day, 1, 8) \o TwoDigits(ParseInt(SubSeq(date.day, 9, 10)) + 1),
          hour  |-> 0]

\* Date.prototype.toISOString()
ToISOString(date) == date.day \o "T" \o TwoDigits(date.hour) \o ":00:00.000Z"

\* the enum of tags in the Task schema
TagEnum == {"work", "personal", "family", "health", "other"}

\* mongoose's validation of a document on save(): title required, start
\* and end required dates, tags in the enum
ValidTask(doc) ==
    /\ doc.title # ""
    /\ doc.start.valid
    /\ doc.end.valid
    /\ \A i \in 1..Len(doc.tags) : doc.tags[i] \in TagEnum

\* whether mongoose can cast id to an ObjectId (here: a string of digits)
IsObjectId(id) == Len(id) > 0 /\ AllDigits(id)

HasTask(store, id) == \E i \in 1..Len(store) : store[i].id = id

IndexOf(store, id) == CHOOSE i \in 1..Len(store) : store[i].id = id

\* a document as res.json sends it: dates as ISO strings
ToJson(doc) ==
    [id |-> doc.id, title |-> doc.title, description |-> doc.description,
     start |-> ToISOString(doc.start), end |-> ToISOString(doc.end),
     tags |-> doc.tags, color |-> doc.color]

AllToJson(store) == [i \in 1..Len(store) |-> ToJson(store[i])]

\* what a route answers when it has no document to send
NoDocument ==
    [id |-> "", title |-> "", description |-> "", start |-> "", end |-> "",
     tags |-> <<>>, color |-> ""]

\* router.post('/'): the status, the document sent and the collection after
ApiCreate(store, id, body) ==
    LET doc == [id          |-> id,
                title       |-> IF IsPresent(body.title) THEN ValueOf(body.title) ELSE "",
                description |-> IF IsPresent(body.description)
                                THEN ValueOf(body.description) ELSE "",
                start       |-> body.start,
                end         |-> body.end,
                tags        |-> IF IsPresent(body.tags) THEN ValueOf(body.tags)
                                ELSE <<"other">>,
                color       |-> IF IsPresent(body.color) /\ ValueOf(body.color) # ""
                                THEN ValueOf(body.color) ELSE "#3788d8"]
    IN  IF ValidTask(doc)
        THEN [status |-> 201, data |-> ToJson(doc), tasks |-> Append(store, doc)]
        ELSE [status |-> 400, data |-> NoDocument, tasks |-> store]

\* router.put('/:id'): a field of the body is taken when it is truthy
\* (description: when it is not undefined); an Invalid Date arrives as null
ApiUpdate(store, id, body) ==
    IF ~IsObjectId(id) THEN [status |-> 400, data |-> NoDocument, tasks |-> store]
    ELSE IF ~HasTask(store, id) THEN [status |-> 404, data |-> NoDocument, tasks |-> store]
    ELSE LET i    == IndexOf(store, id)
             task == store[i]
             doc  == [id          |-> task.id,
                      title       |-> IF IsPresent(body.title) /\ ValueOf(body.title) # ""
                                      THEN ValueOf(body.title) ELSE task.title,
                      description |-> IF IsPresent(body.description)
                                      THEN ValueOf(body.description) ELSE task.description,
                      start       |-> IF IsPresent(body.start) /\ ValueOf(body.start).valid
                                      THEN ValueOf(body.start) ELSE task.start,
                      end         |-> IF IsPresent(body.end) /\ ValueOf(body.end).valid
                                      THEN ValueOf(body.end) ELSE task.end,
                      tags        |-> IF IsPresent(body.tags)
                                      THEN ValueOf(body.tags) ELSE task.tags,
                      color       |-> IF IsPresent(body.color) /\ ValueOf(body.color) # ""
                                      THEN ValueOf(body.color) ELSE task.color]
         IN  IF ValidTask(doc)
             THEN [status |-> 200, data |-> ToJson(doc), tasks |-> [store EXCEPT ![i] = doc]]
             ELSE [status |-> 400, data |-> NoDocument, tasks |-> store]

\* router.delete('/:id')
ApiDelete(store, id) ==
    IF ~IsObjectId(id) THEN [status |-> 500, data |-> NoDocument, tasks |-> store]
    ELSE IF ~HasTask(store, id) THEN [status |-> 404, data |-> NoDocument, tasks |-> store]
    ELSE [status |-> 200, data |-> NoDocument,
          tasks  |-> SelectSeq(store, LAMBDA doc : doc.id # id)]

\* the message of the error axios throws for a response outside 2xx
AxiosError(status) == "Request failed with status code " \o ToString(status)

\* the id in the URL `${TASK_API_URL}/${args.id}`
UrlId(args) == IF IsPresent(args.id) THEN ValueOf(args.id) ELSE "undefined"

\* what a tool function hands back: its result, or the message of the Error
\* it throws, with the collection after it and the requests it made
Returned(result, store, requests) ==
    [ok |-> TRUE, result |-> result, tasks |-> store, calls |-> requests]

Thrown(message, store, requests) ==
    [ok |-> FALSE, message |-> message, tasks |-> store, calls |-> requests]

\* createTask(args); up tells whether the task API can be reached
createTask(store, id, args, up) ==
    LET startDate == NewDateOf(args.start)
        endDate   == IF IsPresent(args.end) /\ ValueOf(args.end) # ""
                     THEN NewDate(ValueOf(args.end)) ELSE PlusOneHour(startDate)
        taskData  == [title       |-> args.title,
                      description |-> IF IsPresent(args.description)
                                         /\ ValueOf(args.description) # ""
                                      THEN args.description ELSE Present(""),
                      start       |-> startDate,
                      end         |-> endDate,
                      tags        |-> IF IsPresent(args.tags) THEN args.tags
                                      ELSE Present(<<"other">>),
                      color       |-> IF IsPresent(args.color) /\ ValueOf(args.color) # ""
                                      THEN args.color ELSE Present("#3788d8")]
        requests  == <<[method |-> "POST", id |-> ""]>>
        response  == ApiCreate(store, id, taskData)
        title     == IF IsPresent(args.title) THEN ValueOf(args.title) ELSE "undefined"
    IN  IF ~up THEN Thrown("Failed to create task: connect ECONNREFUSED", store, requests)
        ELSE IF response.status = 201
        THEN Returned([success |-> TRUE, task |-> response.data,
                       message |-> "Task \"" \o title \o "\" created successfully"],
                      response.tasks, requests)
        ELSE Thrown("Failed to create task: " \o AxiosError(response.status),
                    store, requests)

\* whether two sequences of tags have a tag in common
SharesTag(tags, wanted) ==
    \E i \in 1..Len(tags), j \in 1..Len(wanted) : tags[i] = wanted[j]

\* listTasks(args): args.date filters on the day, args.tags on a common tag
listTasks(store, args, up) ==
    LET requests == <<[method |-> "GET", id |-> ""]>>
        onDate   == IF IsPresent(args.date) /\ ValueOf(args.date) # ""
                    THEN SelectSeq(store, LAMBDA doc :
                             NewDate(ValueOf(args.date)).valid
                             /\ doc.start.day = NewDate(ValueOf(args.date)).day)
                    ELSE store
        tagged   == IF IsPresent(args.tags) /\ Len(ValueOf(args.tags)) > 0
                    THEN SelectSeq(onDate, LAMBDA doc : SharesTag(doc.tags, ValueOf(args.tags)))
                    ELSE onDate
    IN  IF ~up THEN Thrown("Failed to list tasks: connect ECONNREFUSED", store, requests)
        ELSE Returned([success |-> TRUE, count |-> Len(tagged), tasks |-> AllToJson(tagged)],
                      store, requests)

\* updateTask(args)
updateTask(store, args, up) ==
    LET updateData == [title       |-> args.title,
                       description |-> args.description,
                       start       |-> IF IsPresent(args.start)
                                       THEN Present(NewDate(ValueOf(args.start))) ELSE Absent,
                       end         |-> IF IsPresent(args.end)
                                       THEN Present(NewDate(ValueOf(args.end))) ELSE Absent,
                       tags        |-> args.tags,
                       color       |-> args.color]
        requests   == <<[method |-> "PUT", id |-> UrlId(args)]>>
        response   == ApiUpdate(store, UrlId(args), updateData)
    IN  IF ~up THEN Thrown("Failed to update task: connect ECONNREFUSED", store, requests)
        ELSE IF response.status = 200
        THEN Returned([success |-> TRUE, task |-> response.data,
                       message |-> "Task updated successfully"], response.tasks, requests)
        ELSE Thrown("Failed to update task: " \o AxiosError(response.status),
                    store, requests)

\* deleteTask(args)
deleteTask(store, args, up) ==
    LET requests == <<[method |-> "DELETE", id |-> UrlId(args)]>>
        response == ApiDelete(store, UrlId(args))
    IN  IF ~up THEN Thrown("Failed to delete task: connect ECONNREFUSED", store, requests)
        ELSE IF response.status = 200
        THEN Returned([success |-> TRUE, message |-> "Task deleted successfully"],
                      response.tasks, requests)
        ELSE Thrown("Failed to delete task: " \o AxiosError(response.status),
                    store, requests)

\* searchTasks(args): the query is looked for in title and description,
\* in lower case
searchTasks(store, args, up) ==
    LET requests == <<[method |-> "GET", id |-> ""]>>
    IN  IF ~up THEN Thrown("Failed to search tasks: connect ECONNREFUSED", store, requests)
        ELSE IF ~IsPresent(args.query)
        THEN Thrown("Failed to search tasks: Cannot read properties of undefined (reading 'toLowerCase')",
                    store, requests)
        ELSE LET query    == ToLowerCase(ValueOf(args.query))
                 has(str) == query = "" \/ Includes(ToLowerCase(str), query)
                 matching == SelectSeq(store, LAMBDA doc :
                                 has(doc.title) \/ (doc.description # "" /\ has(doc.description)))
             IN  Returned([success |-> TRUE, count |-> Len(matching),
                           tasks |-> AllToJson(matching)], store, requests)

\* faulty variant: the switch sends a name it does not know to listTasks
IsKnownToolAny(toolName) == TRUE

\* whether the switch of POST /mcp/v1/tools/:toolName has a case for the name
IsKnownTool(toolName) == toolName \in KnownTools

\* the cases of the switch
RunTool(toolName, store, id, args, up) ==
    IF toolName = "create_task" THEN createTask(store, id, args, up)
    ELSE IF toolName = "update_task" THEN updateTask(store, args, up)
    ELSE IF toolName = "delete_task" THEN deleteTask(store, args, up)
    ELSE IF toolName = "search_tasks" THEN searchTasks(store, args, up)
    ELSE listTasks(store, args, up)

\* arguments without any property
NoArgs ==
    [id |-> Absent, title |-> Absent, description |-> Absent, start |-> Absent,
     end |-> Absent, tags |-> Absent, color |-> Absent, query |-> Absent, date |-> Absent]

\* the arguments the requests carry, by tool
ArgsOf(toolName) ==
    IF toolName = "create_task" THEN
        { [NoArgs EXCEPT !.title = Present("Standup"), !.start = Present("2025-07-02T23:00:00Z"),
                         !.tags = Present(<<"work">>)],
          [NoArgs EXCEPT !.title = Present("Lunch"), !.start = Present("2025-07-03T12:00:00.000Z"),
                         !.end = Present("2025-07-03T14:00:00Z"), !.color = Present("#ff0000"),
                         !.description = Present("with the team")],
          [NoArgs EXCEPT !.title = Present("Someday"), !.start = Present("tomorrow")] }
    ELSE IF toolName = "update_task" THEN
        { [NoArgs EXCEPT !.id = Present(id), !.title = title, !.description = description,
                         !.start = start, !.color = color] :
              id \in {"1", "2", "9"},
              title \in {Absent, Present(""), Present("Retro")},
              description \in {Absent, Present("")},
              start \in {Absent, Present("2025-07-04T09:00:00Z")},
              color \in {Absent, Present("")} }
        \cup
        { [NoArgs EXCEPT !.id = Present("1"), !.tags = Present(<<"urgent">>)],
          [NoArgs EXCEPT !.id = Present("1"), !.tags = Present(<<>>),
                         !.end = Present("2025-07-05T10:00:00Z")],
          [NoArgs EXCEPT !.id = Present("1"), !.start = Present("tomorrow")],
          [NoArgs EXCEPT !.title = Present("Retro")] }
    ELSE IF toolName = "delete_task" THEN
        { [NoArgs EXCEPT !.id = Present("1")], [NoArgs EXCEPT !.id = Present("9")], NoArgs }
    ELSE IF toolName = "list_tasks" THEN
        { NoArgs, [NoArgs EXCEPT !.tags = Present(<<"work">>)],
          [NoArgs EXCEPT !.date = Present("2025-07-03T00:00:00Z")] }
    ELSE IF toolName = "search_tasks" THEN
        { NoArgs, [NoArgs EXCEPT !.query = Present("STAND")] }
    ELSE { NoArgs }

\* the names requests are posted for
PostedTools == KnownTools \cup {"send_email"}

\* the MCP server is listening; the Task collection is empty
InitServer ==
    /\ InitMemory(ChatMaxMessages)
    /\ NoChat
    /\ NoParse
    /\ NoDemo
    /\ tasks = <<>>
    /\ nextId = 1
    /\ apiCalls = <<>>
    /\ httpRequest = Undefined
    /\ httpResponse = Undefined
    /\ posts = 0

\* app.post('/mcp/v1/tools/:toolName'): one request, handled to its response
PostToolEndpoint(toolName, args, up) ==
    /\ posts < MaxPosts
    /\ posts' = posts + 1
    /\ httpRequest' = [toolName |-> toolName, arguments |-> args]
    /\ IF IsKnownTool(toolName)
       THEN LET out == RunTool(toolName, tasks, ToString(nextId), args, up)
            IN  /\ tasks' = out.tasks
                /\ nextId' = IF Len(out.tasks) > Len(tasks) THEN nextId + 1 ELSE nextId
                /\ apiCalls' = out.calls
                /\ httpResponse' =
                      IF out.ok
                      THEN [status |-> 200, body |-> [result |-> out.result]]
                      ELSE [status |-> 500,
                            body |-> [error |-> [code |-> "EXECUTION_ERROR",
                                                 message |-> out.message]]]
       ELSE /\ httpResponse' =
                  [status |-> 404,
                   body |-> [error |-> [code |-> "TOOL_NOT_FOUND",
                                        message |-> "Tool " \o toolName \o " not found"]]]
            /\ apiCalls' = <<>>
            /\ UNCHANGED <<tasks, nextId>>
    /\ UNCHANGED <<memVars, chatVars, parseVars, demoVars>>

NextServer ==
    \E toolName \in PostedTools, up \in BOOLEAN :
        \E args \in ArgsOf(toolName) : PostToolEndpoint(toolName, args, up)

SpecServer == InitServer /\ [][NextServer]_vars

(* ------------------------ checked properties -------------------------- *)

Min(a, b) == IF a < b THEN a ELSE b

Keywords == {"created", "scheduled", "deleted", "updated"}

HasKeyword(content) == \E k \in Keywords : Includes(content, k)

KeywordTurn(msg) == HasKeyword(msg.content)

\* a step that is one addMessage call
AddStep == calls' = calls + 1

\* C1: after every addMessage call the number of retained messages is at
\* most maxMessages, for every positive maxMessages.
C1_Bounded == maxMessages >= 1 /\ Len(messages) <= maxMessages

C1_Witness ==
    lastOp = "addMessage" /\ Len(oldMessages) > 0 /\ Len(messages) = maxMessages

\* C2: after n addMessage calls since construction or the last clear the
\* retained messages are exactly the last min(n, maxMessages) recorded ones,
\* in the order they were recorded.
C2_LastRecorded ==
    LET n == Len(recorded)
        k == Min(n, maxMessages)
    IN  /\ Len(messages) = k
        /\ \A i \in 1..k : messages[i] = recorded[n - k + i]

C2_Witness ==
    lastOp = "addMessage" /\ Len(recorded) > maxMessages /\ Len(messages) > 1

\* C3: in chat mode no tool call is sent to the MCP server for an input unless
\* the user was asked to confirm the action and answered yes before the call.
C3_AllActionsConfirmed == pc = "tool" => confirmation = "yes"

\* C4: an addMessage call whose evicted batch holds no message with a keyword
\* in its content leaves summary unchanged; an addMessage call changes summary
\* only when an evicted message contains a keyword.
C4_NoKeywordNoChange ==
    [][AddStep =>
        /\ (\A i \in 1..Len(oldMessages') : ~HasKeyword(oldMessages'[i].content))
              => summary' = summary
        /\ summary' # summary
              => \E i \in 1..Len(oldMessages') : HasKeyword(oldMessages'[i].content)]_vars

C4_Witness ==
    /\ lastOp = "addMessage"
    /\ Len(oldMessages) = 1
    /\ ~HasKeyword(oldMessages[1].content)
    /\ summary # ""

\* C5 as stated: whenever an addMessage call evicts a message whose content
\* contains a keyword, summary is non-empty afterwards, contains that content,
\* and has grown by exactly 'Previous session: ' + the matching contents
\* joined by '; ' + '.'.
C5_Original ==
    [][(AddStep /\ \E i \in 1..Len(oldMessages') : HasKeyword(oldMessages'[i].content)) =>
        /\ summary' # ""
        /\ \A i \in 1..Len(oldMessages') :
              HasKeyword(oldMessages'[i].content) => Includes(summary', oldMessages'[i].content)
        /\ summary' = summary \o "Previous session: "
                          \o Join(ContentsOf(SelectSeq(oldMessages', KeywordTurn)), "; ")
                          \o "."]_vars

\* C5 amended: the same, the text appended being a newline, then
\* 'Previous session: ', the matching contents joined by '; ', and '.'.
C5_Appended ==
    [][(AddStep /\ \E i \in 1..Len(oldMessages') : HasKeyword(oldMessages'[i].content)) =>
        /\ summary' # ""
        /\ \A i \in 1..Len(oldMessages') :
              HasKeyword(oldMessages'[i].content) => Includes(summary', oldMessages'[i].content)
        /\ summary' = summary \o "\nPrevious session: "
                          \o Join(ContentsOf(SelectSeq(oldMessages', KeywordTurn)), "; ")
                          \o "."]_vars

C5_Witness ==
    /\ lastOp = "addMessage"
    /\ Len(oldMessages) = 1
    /\ HasKeyword(oldMessages[1].content)
    /\ Includes(summary, oldMessages[1].content)

\* C6: summary is append-only: across every addMessage, getContextString and
\* getHistory step the old summary is a prefix of the new one; only clear
\* shortens it, and clear leaves it empty.
C6_AppendOnly ==
    [][/\ lastOp' # "clear" => IsPrefix(summary, summary')
       /\ Len(summary') < Len(summary) => lastOp' = "clear"
       /\ lastOp' = "clear" => summary' = ""]_vars

C6_Witness ==
    \E c1 \in Contents, c2 \in Contents :
        summary = "\nPrevious session: " \o c1 \o "." \o "\nPrevious session: " \o c2 \o "."

\* C7: an addMessage call evicts exactly count - maxMessages oldest messages
\* (count being the length after the push) and hands that batch to
\* updateSummary; as messages enter one at a time, each call evicts nothing or
\* exactly one message, the oldest retained one.
C7_EvictsOldest ==
    [][AddStep =>
        LET count == Len(messages) + 1
            k     == IF count > maxMessages THEN count - maxMessages ELSE 0
        IN  /\ Len(oldMessages') = k
            /\ k \in {0, 1}
            /\ k = 1 => oldMessages'[1] = messages[1]
            /\ Len(messages') = count - k
            /\ \A i \in 1..Len(messages') - 1 : messages'[i] = messages[i + k]
            /\ summary' = IF k = 1 /\ HasKeyword(messages[1].content)
                          THEN summary \o "\nPrevious session: " \o messages[1].content \o "."
                          ELSE summary]_vars

C7_Witness ==
    /\ lastOp = "addMessage"
    /\ Len(oldMessages) = 1
    /\ Len(messages) = 2
    /\ oldMessages[1].timestamp < messages[1].timestamp

\* C8: getContextString on a window with empty summary and no messages
\* returns the empty string.
C8_EmptyRender ==
    (lastOp = "getContextString" /\ summary = "" /\ Len(messages) = 0) => ret = ""

C8_Witness ==
    lastOp = "getContextString" /\ summary = "" /\ Len(messages) = 0 /\ calls = 0

\* C9: from any reachable window state, clear followed immediately by
\* getContextString returns the empty string.
C9_ClearThenRender ==
    [][(lastOp = "clear" /\ lastOp' = "getContextString") => ret' = ""]_vars

C9_Witness ==
    /\ lastOp = "getContextString"
    /\ ret = ""
    /\ recorded = <<>>
    /\ calls > maxMessages

\* C10: whenever summary is non-empty, the string getContextString returns
\* starts with the summary block, and the 'Recent conversation' block (present
\* when messages are retained) ends the string, after the summary block.
C10_SummaryFirst ==
    (lastOp = "getContextString" /\ summary # "") =>
        LET head   == "Summary of earlier conversation: " \o summary \o "\n\n"
            recent == IF Len(messages) > 0
                      THEN "Recent conversation:\n" \o Lines(messages) ELSE ""
        IN  /\ IsPrefix(head, ret)
            /\ Len(ret) >= Len(head) + Len(recent)
            /\ SubSeq(ret, Len(ret) - Len(recent) + 1, Len(ret)) = recent

C10_Witness ==
    lastOp = "getContextString" /\ summary # "" /\ Len(messages) > 0

\* the lines of a text, each ended by a newline
RECURSIVE SplitLines(_)
SplitLines(text) ==
    IF Len(text) = 0 THEN <<>>
    ELSE IF \E i \in 1..Len(text) : SubSeq(text, i, i) = "\n"
         THEN LET i == CHOOSE j \in 1..Len(text) :
                           /\ SubSeq(text, j, j) = "\n"
                           /\ \A h \in 1..(j - 1) : SubSeq(text, h, h) # "\n"
              IN  <<SubSeq(text, 1, i - 1)>> \o SplitLines(SubSeq(text, i + 1, Len(text)))
         ELSE <<text>>

\* C11: getContextString lists every retained message exactly once as a
\* 'role: content' line, in the order recorded, under the 'Recent
\* conversation:' header, and lists no evicted message there.
C11_RecentLines ==
    lastOp = "getContextString" =>
        LET head  == IF summary # ""
                     THEN Len("Summary of earlier conversation: ") + Len(summary) + 2
                     ELSE 0
            lines == SplitLines(SubSeq(ret, head + 1, Len(ret)))
            n     == Len(recorded)
            k     == Min(n, maxMessages)
        IN  IF k = 0 THEN lines = <<>>
            ELSE /\ Len(lines) = k + 1
                 /\ lines[1] = "Recent conversation:"
                 /\ \A i \in 1..k :
                       lines[i + 1] = recorded[n - k + i].role \o ": "
                                          \o recorded[n - k + i].content

C11_Witness ==
    /\ lastOp = "getContextString"
    /\ Len(messages) = 2
    /\ Len(recorded) > 2
    /\ messages[1].content # messages[2].content
    /\ summary # ""

\* C12: getHistory reports totalMessages equal to the number of messages
\* retained now, not the number ever added, so the figure never exceeds
\* maxMessages.
C12_TotalIsRetained ==
    lastOp = "getHistory" =>
        /\ ret.totalMessages = Len(messages)
        /\ ret.totalMessages <= maxMessages
        /\ ret.messages = messages
        /\ ret.summary = summary

C12_Witness ==
    lastOp = "getHistory" /\ calls > maxMessages /\ ret.totalMessages = maxMessages

\* C13: getContextString and getHistory leave messages, maxMessages and
\* summary unchanged, and a getContextString call that directly follows
\* another returns the same string.
C13_ReadOnly ==
    [][/\ lastOp' \in {"getContextString", "getHistory"} =>
              /\ messages' = messages
              /\ summary' = summary
              /\ maxMessages' = maxMessages
       /\ (lastOp = "getContextString" /\ lastOp' = "getContextString") => ret' = ret]_vars

C13_Witness ==
    lastOp = "getContextString" /\ Len(messages) > 0 /\ Len(oldMessages) > 0 /\ ret # ""

\* C14: addMessage with a role other than user or assistant does not store
\* the message: every stored message has role user or assistant.
C14_InvalidRoleNotStored ==
    \A i \in 1..Len(messages) : messages[i].role \in {"user", "assistant"}

\* C19 as stated: an evicted message with role user does not contribute to
\* summary.
C19_Original ==
    [][(AddStep /\ Len(oldMessages') = 1 /\ oldMessages'[1].role = "user")
          => summary' = summary]_vars

\* C19 amended: the filter looks at the content only: an evicted message,
\* whether its role is user or assistant, contributes to summary exactly when
\* its content contains a keyword.
C19_ContentOnly ==
    [][(AddStep /\ Len(oldMessages') = 1) =>
          \A r \in {"user", "assistant"} :
              oldMessages'[1].role = r =>
                  (summary' # summary <=> HasKeyword(oldMessages'[1].content))]_vars

C19_Witness ==
    /\ lastOp = "addMessage"
    /\ Len(oldMessages) = 1
    /\ oldMessages[1].role = "user"
    /\ HasKeyword(oldMessages[1].content)
    /\ Includes(summary, oldMessages[1].content)

\* the last message retained
LastMessage == messages[Len(messages)]

\* C15: when the model call, the parse of its reply or the tool execution
\* fails in chat mode, the loop reports the error on the console, records
\* exactly one assistant message describing it, and prompts for the next
\* input; it does not close.
C15_ErrorsAreRecorded ==
    [][(\/ pc = "ollama" /\ pc' # "ollama" /\ llmResult' = Undefined
        \/ pc = "tool" /\ toolOutcome'.kind = "thrown") =>
          /\ Len(stderr') > 0
          /\ stderr'[Len(stderr')].site = "chatLoop"
          /\ calls' = calls + 1
          /\ messages'[Len(messages')].role = "assistant"
          /\ messages'[Len(messages')].content
                 = "Error occurred: " \o stderr'[Len(stderr')].message
          /\ pc' = "prompt"
          /\ prompts' = 1]_vars

C15_Witness ==
    /\ pc = "prompt"
    /\ toolOutcome.kind = "thrown"
    /\ LastMessage.content = "Error occurred: Request failed with status code 500"

\* C16: every executeMCPTool call hands the caller an envelope, with success
\* true, or with success false and an error string; a failed tool execution
\* arrives as such an envelope with success false.
C16_AlwaysAnEnvelope ==
    toolOutcome.kind # "none" =>
        /\ toolOutcome.kind = "returned"
        /\ toolOutcome.result.success \/ toolOutcome.result.error # ""

\* C18: the chat loop never has two things outstanding: the rl.question
\* callbacks waiting for a line, the request to the model and the request to
\* the MCP server number at most one together, so at most one input is being
\* processed and at most one prompt is pending.
C18_OneAtATime ==
    LET modelCall == IF pc = "ollama" THEN 1 ELSE 0
        toolCall  == IF request # Undefined THEN 1 ELSE 0
    IN  /\ prompts + modelCall + toolCall <= 1
        /\ pc \in {"prompt", "confirm"} => prompts = 1
        /\ pc = "tool" <=> toolCall = 1
        /\ pc = "closed" => prompts + modelCall + toolCall = 0

C18_Witness ==
    pc = "prompt" /\ prompts = 1 /\ confirmation = "no" /\ inputsRead > 1

\* C20 as stated: an answer to the confirmation prompt that does not start
\* with 'y' cancels the action.
C20_Original ==
    [][(pc = "confirm" /\ pc' # "confirm" /\ ~IsPrefix("y", ynAnswer')) =>
          /\ pc' = "prompt"
          /\ request' = Undefined
          /\ messages'[Len(messages')].content = "Action was cancelled by user"]_vars

\* C20 amended: an answer that starts with neither 'y' nor 'Y' cancels the
\* action: no tool call is made for that input, an 'Action was cancelled by
\* user' assistant message is recorded, and the loop prompts again.
C20_Cancelled ==
    [][(pc = "confirm" /\ pc' # "confirm"
            /\ ~IsPrefix("y", ynAnswer') /\ ~IsPrefix("Y", ynAnswer')) =>
          /\ pc' = "prompt"
          /\ prompts' = 1
          /\ request' = Undefined
          /\ toolOutcome' = NoOutcome
          /\ calls' = calls + 1
          /\ messages'[Len(messages')].role = "assistant"
          /\ messages'[Len(messages')].content = "Action was cancelled by user"]_vars

C20_Witness ==
    /\ pc = "prompt"
    /\ confirmation = "no"
    /\ ynAnswer \in {"no", ""}
    /\ LastMessage.content = "Action was cancelled by user"

\* the first balanced {...} of a text: from its first '{' to the '}' that
\* closes it
RECURSIVE CloseOf(_, _, _)
CloseOf(text, i, depth) ==
    IF i > Len(text) THEN 0
    ELSE IF CharAt(text, i) = "{" THEN CloseOf(text, i + 1, depth + 1)
    ELSE IF CharAt(text, i) = "}"
         THEN IF depth = 1 THEN i ELSE CloseOf(text, i + 1, depth - 1)
    ELSE CloseOf(text, i + 1, depth)

FirstBalanced(text) ==
    IF \E i \in 1..Len(text) : CharAt(text, i) = "{"
    THEN LET a == CHOOSE i \in 1..Len(text) :
                      CharAt(text, i) = "{" /\ \A h \in 1..(i - 1) : CharAt(text, h) # "{"
             b == CloseOf(text, a + 1, 1)
         IN  IF b > 0 THEN [found |-> TRUE, text |-> SubSeq(text, a, b)] ELSE NoMatch
    ELSE NoMatch

\* from the first '{' of a text to its last '}'
FirstToLast(text) ==
    IF \E a \in 1..Len(text), b \in 1..Len(text) :
           a < b /\ CharAt(text, a) = "{" /\ CharAt(text, b) = "}"
    THEN LET a == CHOOSE i \in 1..Len(text) :
                      CharAt(text, i) = "{" /\ \A h \in 1..(i - 1) : CharAt(text, h) # "{"
             b == CHOOSE i \in 1..Len(text) :
                      CharAt(text, i) = "}" /\ \A h \in (i + 1)..Len(text) : CharAt(text, h) # "}"
         IN  [found |-> TRUE, text |-> SubSeq(text, a, b)]
    ELSE NoMatch

\* the outcome the parse must have when the fallback extracts `extract`
ParseOutcomeWith(extract) ==
    IF JsonParse(llmResponse).ok
    THEN parsed.kind = "value" /\ parsed.value = JsonParse(llmResponse).val
    ELSE IF extract.found /\ JsonParse(extract.text).ok
         THEN parsed.kind = "value" /\ parsed.value = JsonParse(extract.text).val
         ELSE parsed.kind = "error" /\ parsed.error # ""

\* C17 as stated: a reply that parses as JSON yields that value; otherwise
\* the first balanced {...} substring is parsed and yields the value; when
\* that fails too an error is raised.
C17_Original ==
    parsed.kind # "none" => ParseOutcomeWith(FirstBalanced(llmResponse))

\* C17 amended: the substring extracted is the one from the first '{' to the
\* last '}' of the reply.
C17_FirstToLast ==
    parsed.kind # "none" => ParseOutcomeWith(FirstToLast(llmResponse))

C17_Witness ==
    /\ parsed.kind = "value"
    /\ ~JsonParse(llmResponse).ok
    /\ parsed.value = "{}"

(* --------------------------- chat mode, continued --------------------- *)

\* C21: when the model's reply has action ask_clarification, the client
\* prints every item of missing_info as a numbered line, sends no tool call
\* for that input, and prompts again.
C21_ClarificationAsksOnly ==
    [][(pc = "ollama" /\ llmResult' # Undefined /\ llmResult'.action = "ask_clarification") =>
          /\ \A i \in 1..Len(llmResult'.missing_info) :
                 \E j \in 1..Len(stdout') :
                     stdout'[j] = "  " \o ToString(i) \o ". " \o llmResult'.missing_info[i]
          /\ request' = Undefined
          /\ toolOutcome' = NoOutcome
          /\ pc' = "prompt"
          /\ prompts' = 1]_vars

C21_Witness ==
    /\ pc = "prompt"
    /\ llmResult # Undefined
    /\ llmResult.action = "ask_clarification"
    /\ Len(stdout) = 5
    /\ stdout[4] = "  2. title"

\* the spellings of a word in any letter case
RECURSIVE CaseVariants(_)
CaseVariants(word) ==
    IF Len(word) = 0 THEN {""}
    ELSE LET c     == SubSeq(word, 1, 1)
             i     == CHOOSE j \in 1..26 : SubSeq(LowerCase, j, j) = c
             heads == {c, SubSeq(UpperCase, i, i)}
         IN  {h \o t : h \in heads, t \in CaseVariants(SubSeq(word, 2, Len(word)))}

ExitWords == CaseVariants("exit") \cup CaseVariants("quit")

\* C22: a line 'exit' or 'quit' in any letter case at the chat prompt prints
\* the summary (when there is one) and the number of retained turns, closes
\* the input interface, leaves no prompt, model call or tool call behind, and
\* nothing happens after the interface is closed.
C22_ExitTerminates ==
    [][/\ pc # "closed"
       /\ (pc = "prompt" /\ inputsRead' = inputsRead + 1 /\ input' \in ExitWords) =>
             /\ pc' = "closed"
             /\ prompts' = 0
             /\ request' = Undefined
             /\ summary # "" => \E j \in 1..Len(stdout') : stdout'[j] = summary
             /\ \E j \in 1..Len(stdout') :
                    stdout'[j] = "Total messages in this session: " \o ToString(Len(messages))
             /\ messages' = messages /\ summary' = summary]_vars

C22_Witness ==
    /\ pc = "closed"
    /\ input = "EXIT"
    /\ summary = "\nPrevious session: I scheduled a call."
    /\ Len(stdout) = 4
    /\ stdout[2] = summary
    /\ stdout[3] = "Total messages in this session: 15"
    /\ prompts = 0

\* C25: every input sent to the model records one user turn when it is sent
\* and exactly one assistant turn by the time the loop prompts again, on
\* every path, and nothing in between.
C25_OneUserOneAssistant ==
    [][/\ (pc = "prompt" /\ pc' = "ollama") =>
             /\ calls' = calls + 1
             /\ messages'[Len(messages')].role = "user"
             /\ messages'[Len(messages')].content = input'
       /\ (pc \in {"ollama", "confirm", "tool"} /\ pc' # "prompt") =>
             calls' = calls /\ messages' = messages
       /\ (pc \in {"ollama", "confirm", "tool"} /\ pc' = "prompt") =>
             /\ calls' = calls + 1
             /\ messages'[Len(messages')].role = "assistant"
             /\ messages'[Len(messages') - 1].role = "user"
             /\ messages'[Len(messages') - 1].content = input]_vars

\* whether text ends with suffix
EndsWith(text, suffix) ==
    /\ Len(suffix) <= Len(text)
    /\ SubSeq(text, Len(text) - Len(suffix) + 1, Len(text)) = suffix

\* C26: the line is recorded before the context is rendered: the context
\* string put into the prompt for an input ends with the line
\* 'user: <that input>'.
C26_ContextEndsWithInput ==
    [][(pc = "prompt" /\ pc' = "ollama") =>
          /\ lastOp' = "getContextString"
          /\ EndsWith(ret', "\nuser: " \o input' \o "\n")]_vars

C26_Witness ==
    /\ pc = "ollama"
    /\ lastOp = "getContextString"
    /\ Len(messages) = ChatMaxMessages
    /\ Len(oldMessages) = 1
    /\ EndsWith(ret, "assistant: Error occurred: connect ECONNREFUSED\nuser: show tasks\n")

(* ---------------------------- clear, continued ------------------------ *)

\* the (role, content) pairs of a sequence of messages
Turns(msgs) == [i \in 1..Len(msgs) |-> [role |-> msgs[i].role, content |-> msgs[i].content]]

\* C28: a window that was cleared is, after any record calls that followed,
\* what a window constructed with the same maxMessages is after the same
\* calls: same retained turns, same summary, same rendering; the turns
\* discarded by clear reach no summary.
C28_ClearedIsFresh ==
    LET w == Replay(FreshWindow(maxMessages), recorded)
    IN  /\ Turns(messages) = Turns(w.messages)
        /\ summary = w.summary
        /\ lastOp = "clear" => messages = <<>> /\ summary = ""
        /\ lastOp = "getContextString" => ret = ContextString(w.messages, w.summary)

C28_Witness ==
    /\ calls = 3
    /\ Len(recorded) = 2
    /\ Len(messages) = 1
    /\ lastOp = "getContextString"
    /\ summary = "\nPrevious session: task updated."
    /\ ret = SummaryBlock(summary) \o "Recent conversation:\nuser: show tasks\n"

(* ------------------------------ the demo ------------------------------ *)

\* C23: driven by the same addMessage, getContextString and getHistory
\* calls with the same maxMessages, the demo's window and the client's
\* window have the same retained turns, the same summary and return the
\* same values.
C23_DemoSameAsClient ==
    /\ demoMaxMessages = maxMessages
    /\ Turns(demoMessages) = Turns(messages)
    /\ demoSummary = summary
    /\ lastOp = "getContextString" => demoRet = ret
    /\ lastOp = "getHistory" =>
          /\ Turns(demoRet.messages) = Turns(ret.messages)
          /\ demoRet.summary = ret.summary
          /\ demoRet.totalMessages = ret.totalMessages

C23_Witness ==
    /\ lastOp = "getContextString"
    /\ calls = 3
    /\ Len(demoMessages) = 2
    /\ demoSummary = "\nPrevious session: task updated."
    /\ demoRet = "Summary of earlier conversation: \nPrevious session: task updated.\n\n"
                   \o "Recent conversation:\nuser: show tasks\nassistant: \n"

(* --------------------------- the MCP server --------------------------- *)

\* the value a supplied date string denotes
SuppliedDate(o) == NewDate(ValueOf(o))

\* C24: an update_task request that succeeds gives every supplied field of
\* the task the supplied value, leaves every other field of it as it was,
\* and leaves every other task as it was.
C24_OnlySuppliedFields ==
    [][(/\ posts' = posts + 1
        /\ httpRequest'.toolName = "update_task"
        /\ httpResponse'.status = 200) =>
          LET args == httpRequest'.arguments
          IN  /\ Len(tasks') = Len(tasks)
              /\ \A i \in 1..Len(tasks) :
                    IF tasks[i].id # ValueOf(args.id) THEN tasks'[i] = tasks[i]
                    ELSE /\ tasks'[i].id = tasks[i].id
                         /\ tasks'[i].title = IF IsPresent(args.title)
                                              THEN ValueOf(args.title) ELSE tasks[i].title
                         /\ tasks'[i].description = IF IsPresent(args.description)
                                                    THEN ValueOf(args.description)
                                                    ELSE tasks[i].description
                         /\ tasks'[i].start = IF IsPresent(args.start)
                                              THEN SuppliedDate(args.start) ELSE tasks[i].start
                         /\ tasks'[i].end = IF IsPresent(args.end)
                                            THEN SuppliedDate(args.end) ELSE tasks[i].end
                         /\ tasks'[i].tags = IF IsPresent(args.tags)
                                             THEN ValueOf(args.tags) ELSE tasks[i].tags
                         /\ tasks'[i].color = IF IsPresent(args.color)
                                              THEN ValueOf(args.color) ELSE tasks[i].color]_vars

\* C27: a POST for a name outside create_task, list_tasks, update_task,
\* delete_task and search_tasks is answered 404 with code TOOL_NOT_FOUND,
\* makes no request to the task API and leaves the collection as it was.
C27_UnknownToolNotFound ==
    [][(/\ posts' = posts + 1
        /\ httpRequest'.toolName \notin
              {"create_task", "list_tasks", "update_task", "delete_task", "search_tasks"}) =>
          /\ httpResponse'.status = 404
          /\ httpResponse'.body.error.code = "TOOL_NOT_FOUND"
          /\ apiCalls' = <<>>
          /\ tasks' = tasks]_vars

C27_Witness ==
    /\ posts = 3
    /\ httpRequest.toolName = "send_email"
    /\ httpResponse.status = 404
    /\ Len(tasks) = 2
    /\ apiCalls = <<>>

====
